---- MODULE Spec2Model ----
(***************************************************************************)
(* A model of auto_commit.py (AutoCommitSystem): one git repository (its   *)
(* working tree, index, HEAD, backup files and commit log), the steps of   *)
(* commit_changes, the schedule-driven main loop of run(), the repository  *)
(* list kept by add_repository and remove_repository, and the split        *)
(* operation on diff texts.                                                *)
(*   Spec        commit runs on one day, every mix of file states          *)
(*   SpecSched   planning and the main loop over several days             *)
(*   SpecLoop    SpecSched with the process taking its steps (fairness)   *)
(*   SpecConfig  add_repository and remove_repository                     *)
(*   SpecSplit   split on every short diff text                           *)
(***************************************************************************)
EXTENDS Integers, Sequences, FiniteSets, TLC

VARIABLES
    work,            \* working tree: path -> content (a sequence of lines) or Absent
    index,           \* git index: path -> content or Absent
    head,            \* tree of the HEAD commit: path -> content or Absent
    bak,             \* the "<path>.bak" files: path -> content or Absent
    log,             \* commit messages of the commits created, oldest first
    pc,              \* position of the commit_changes call: idle/select/modify/add/commit/cleanup/done
    files,           \* commit_changes: files (the sample drawn by get_random_files)
    modified_files,  \* commit_changes: modified_files
    k,               \* commit_changes: index of the running for loop
    commit_message,  \* commit_changes: commit_message
    ret,             \* return value of the last finished commit_changes call
    ops,             \* git commands issued by the current call, with their outcome
    pre,             \* the repository as it was when the current call started
    active,          \* ids of the jobs whose commit_changes call has started and not returned
    now,             \* the clock, in seconds since the model's day 0
    jobs,            \* schedule.jobs: the registered jobs
    pending,         \* run_pending: the due jobs still to run in this pass
    cur,             \* run_pending: the job being run (a sequence of at most one job)
    loop,            \* position of run(): init/pending/running/error_sleep/stopped/crashed
    nextid,          \* next job id
    config,          \* self.config, as loaded from the configuration file
    planned,         \* the clock reading of the last schedule_commits call, in ticks of the day
    exc,             \* the exception the main loop caught last: none/Exception/KeyboardInterrupt
    saved,           \* the configuration file: <<the configuration it holds>>, <<>> when cut short
    result,          \* the last add_repository or remove_repository call: op, arg and value
    diff,            \* DiffSplitter: the diff text given to split
    patch,           \* DiffSplitter: the first-hunk patch split returned
    split_pc         \* DiffSplitter: input/done/failed

vars == <<work, index, head, bak, log, pc, files, modified_files, k, commit_message,
          ret, ops, pre, active, now, jobs, pending, cur, loop, nextid, config,
          planned, exc, saved, result, diff, patch, split_pc>>

repoVars == <<work, index, head, bak, log>>
callVars == <<pc, files, modified_files, k, commit_message, ret, ops, pre>>
schedVars == <<now, jobs, pending, cur, loop, nextid, config, planned, exc>>
cfgVars == <<saved, result>>
splitVars == <<diff, patch, split_pc>>

----------------------------------------------------------------------------
(* Bounds of the model *)

\* last clock value explored
MaxTime == 3
\* seconds in a day
DayLen == 4
\* last clock value explored when the main loop is followed over several days
MaxSchedTime == 9
\* clock readings told apart within one second (datetime.now() has microseconds)
TicksPerSecond == 2

----------------------------------------------------------------------------
(* The repository *)

Paths == {"a.py", "b.py", "n.txt"}
Extension == [p \in Paths |-> IF p = "n.txt" THEN ".txt" ELSE ".py"]

Absent == <<-1>>
\* the line modify_file_content inserts ("# Auto-generated comment: <time>")
Comment == 0
\* the line modify_file_content writes over line l ("# Modified: <l> - <time>")
Modified(l) == l + 10

Msgs == {"Fix tests", "Update UI"}

Min(a, b) == IF a <= b THEN a ELSE b
Max(a, b) == IF a >= b THEN a ELSE b

\* lines.insert(pos, x), 0 <= pos <= len(lines)
InsertAt(s, pos, x) == SubSeq(s, 1, pos) \o <<x>> \o SubSeq(s, pos + 1, Len(s))
\* del lines[pos], 0 <= pos < len(lines)
DeleteAt(s, pos) == SubSeq(s, 1, pos) \o SubSeq(s, pos + 2, Len(s))
\* lines[pos] = "# Modified: ...", 0 <= pos < len(lines)
ModifyAt(s, pos) == [s EXCEPT ![pos + 1] = Modified(s[pos + 1])]

RECURSIVE AddLines(_, _)
AddLines(S, n) ==
    IF n = 0 THEN S
    ELSE AddLines(UNION {{InsertAt(s, p, Comment) : p \in 0..Len(s)} : s \in S}, n - 1)

RECURSIVE RemoveLines(_, _)
RemoveLines(S, n) ==
    IF n = 0 THEN S
    ELSE RemoveLines(UNION {{DeleteAt(s, p) : p \in 0..(Len(s) - 1)} : s \in S}, n - 1)

RECURSIVE ModifyLines(_, _)
ModifyLines(S, n) ==
    IF n = 0 THEN S
    ELSE ModifyLines(UNION {{ModifyAt(s, p) : p \in 0..(Len(s) - 1)} : s \in S}, n - 1)

\* the contents modify_file_content may write for a file that holds `lines`
NewContents(lines) ==
    UNION {
        AddLines({lines}, n)
        \cup (IF Len(lines) > n * 2
              THEN RemoveLines({lines}, Min(n, Len(lines) \div 3))
              ELSE ModifyLines({lines}, Min(n, Len(lines))))
        \cup ModifyLines({lines}, Min(n, Len(lines)))
        : n \in config.line_changes.min_lines..config.line_changes.max_lines }

\* LsFiles with a fault: the files of the working tree that match, tracked or not
LsFilesWorktree(ext) == {p \in Paths : work[p] # Absent /\ Extension[p] = ext}

\* git ls-files "*<ext>": the paths of the index that match
LsFiles(ext) == {p \in Paths : index[p] # Absent /\ Extension[p] = ext}

\* valid_files of get_random_files
ValidFiles == UNION {LsFiles(config.file_extensions[i]) : i \in 1..Len(config.file_extensions)}

Range(s) == {s[i] : i \in 1..Len(s)}

\* random.sample(valid_files, n): n distinct files in any order
Samples(S, n) == {s \in [1..n -> S] : \A i, j \in 1..n : i # j => s[i] # s[j]}

----------------------------------------------------------------------------
(* Initial repositories: each path in one of the states git status knows *)

Base == <<1>>
Staged == <<1, 2>>
Edited == <<1, 2, 3>>

\* <<head, index, work>> of one path
Clean == <<Base, Base, Base>>
StagedModified == <<Base, Staged, Staged>>
WorktreeModified == <<Base, Base, Edited>>
BothModified == <<Base, Staged, Edited>>
AddedNew == <<Absent, Base, Base>>
Untracked == <<Absent, Absent, Base>>
DeletedInWorktree == <<Base, Base, Absent>>
EmptyClean == <<<<>>, <<>>, <<>>>>

Snapshot == [work |-> work, index |-> index, head |-> head, bak |-> bak, commits |-> Len(log)]

----------------------------------------------------------------------------
(* commit_changes, one action per step *)

\* return v from commit_changes
Return(v) ==
    /\ pc' = "done"
    /\ ret' = v

\* what the except branch of modify_file_content leaves, as <<file, backup>>, when
\* the file holds w and the backup b: os.replace moves the backup over the file if
\* there is one, and a failure of os.replace is passed over
RestoreBackup(w, b) ==
    IF b # Absent THEN {<<b, Absent>>, <<w, b>>} ELSE {<<w, b>>}

\* the outcomes of modify_file_content(f): [ok |-> its return value, w |-> the
\* file afterwards, b |-> the backup file afterwards]
ModifyOutcomes(f) ==
    LET lines == work[f]
        failed(S) == {[ok |-> FALSE, w |-> x[1], b |-> x[2]] : x \in S}
        \* open(file_path, 'r') or readlines raises
        readFails == failed(RestoreBackup(lines, bak[f]))
        \* open(backup, 'w') raises, or writelines raises after the file was truncated
        backupFails == failed(RestoreBackup(lines, bak[f]) \cup RestoreBackup(lines, <<>>))
        \* open(file_path, 'w') raises, or writelines raises after the file was truncated
        writeFails == failed(RestoreBackup(lines, lines) \cup RestoreBackup(<<>>, lines))
        written == {[ok |-> TRUE, w |-> c, b |-> lines] : c \in NewContents(lines)}
    IN  IF lines = Absent THEN readFails
        ELSE readFails \cup backupFails \cup writeFails \cup written

\* lines 197-202: draw the files, return False when there is none
SelectFiles ==
    /\ pc = "select"
    /\ \/ \E num_files \in 1..3 :
            IF ValidFiles = {}
            THEN /\ Return(FALSE)
                 /\ UNCHANGED <<files, k>>
            ELSE /\ files' \in Samples(ValidFiles, Min(num_files, Cardinality(ValidFiles)))
                 /\ pc' = "modify"
                 /\ k' = 1
                 /\ UNCHANGED ret
       \/ \* subprocess.run raises: caught at line 233
          /\ Return(FALSE)
          /\ UNCHANGED <<files, k>>
    /\ UNCHANGED <<repoVars, modified_files, commit_message, ops, pre, active, schedVars, splitVars, cfgVars>>

\* lines 206-215: one turn of the loop over files; after the last one, return
\* False when nothing was modified, else generate the commit message
ModifyFile ==
    /\ pc = "modify"
    /\ LET f == files[k] IN
       \E o \in ModifyOutcomes(f) :
          /\ work' = [work EXCEPT ![f] = o.w]
          /\ bak' = [bak EXCEPT ![f] = o.b]
          /\ modified_files' = IF o.ok THEN Append(modified_files, f) ELSE modified_files
          /\ IF k < Len(files)
             THEN /\ k' = k + 1
                  /\ UNCHANGED <<pc, ret, commit_message>>
             ELSE IF modified_files' = <<>>
                  THEN /\ Return(FALSE)
                       /\ UNCHANGED <<k, commit_message>>
                  ELSE /\ pc' = "add"
                       /\ k' = 1
                       /\ commit_message' \in Msgs
                       /\ UNCHANGED ret
    /\ UNCHANGED <<index, head, log, files, ops, pre, active, schedVars, splitVars, cfgVars>>

\* the exit statuses of a git command: subprocess.run returns whatever the
\* status (check is not set), or raises OSError when git cannot be started
Outcomes == {"ok", "fail", "raise"}

\* lines 218-219: git add of one modified file
GitAdd ==
    /\ pc = "add"
    /\ LET f == modified_files[k] IN
       \E rc \in Outcomes :
          /\ ops' = Append(ops, [cmd |-> "add", file |-> f, rc |-> rc, msg |-> ""])
          /\ index' = IF rc = "ok" THEN [index EXCEPT ![f] = work[f]] ELSE index
          /\ IF rc = "raise"
             THEN /\ Return(FALSE)
                  /\ UNCHANGED k
             ELSE /\ UNCHANGED ret
                  /\ IF k < Len(modified_files)
                     THEN k' = k + 1 /\ UNCHANGED pc
                     ELSE k' = 1 /\ pc' = "commit"
    /\ UNCHANGED <<work, head, bak, log, files, modified_files, commit_message, pre,
                   active, schedVars, splitVars, cfgVars>>

\* GitCommit with a fault: the commit command is issued again after it failed
GitCommitRetried ==
    /\ pc = "commit"
    /\ \E rc \in Outcomes :
          /\ rc = "ok" => index # head
          /\ ops' = Append(ops, [cmd |-> "commit", file |-> "", rc |-> rc, msg |-> commit_message])
          /\ IF rc = "ok"
             THEN head' = index /\ log' = Append(log, commit_message)
             ELSE UNCHANGED <<head, log>>
          /\ IF rc = "ok"
             THEN pc' = "cleanup" /\ UNCHANGED ret
             ELSE UNCHANGED <<pc, ret>>
    /\ k' = 1
    /\ UNCHANGED <<work, index, bak, files, modified_files, commit_message, pre,
                   active, schedVars, splitVars, cfgVars>>

\* line 222: git commit -m commit_message; it commits the whole index, and exits
\* with a failure when the index equals HEAD (nothing to commit)
GitCommit ==
    /\ pc = "commit"
    /\ \E rc \in Outcomes :
          /\ rc = "ok" => index # head
          /\ ops' = Append(ops, [cmd |-> "commit", file |-> "", rc |-> rc, msg |-> commit_message])
          /\ IF rc = "ok"
             THEN head' = index /\ log' = Append(log, commit_message)
             ELSE UNCHANGED <<head, log>>
          /\ IF rc = "raise"
             THEN Return(FALSE)
             ELSE pc' = "cleanup" /\ UNCHANGED ret
    /\ k' = 1
    /\ UNCHANGED <<work, index, bak, files, modified_files, commit_message, pre,
                   active, schedVars, splitVars, cfgVars>>

\* lines 225-231: remove the backup of one modified file; return True after the last
RemoveBackup ==
    /\ pc = "cleanup"
    /\ LET f == modified_files[k] IN
       \/ /\ bak' = [bak EXCEPT ![f] = Absent]
          /\ IF k < Len(modified_files)
             THEN k' = k + 1 /\ UNCHANGED <<pc, ret>>
             ELSE Return(TRUE) /\ UNCHANGED k
       \/ \* os.remove raises: caught at line 233
          /\ bak[f] # Absent
          /\ Return(FALSE)
          /\ UNCHANGED <<bak, k>>
    /\ UNCHANGED <<work, index, head, log, files, modified_files, commit_message, ops,
                   pre, active, schedVars, splitVars, cfgVars>>

----------------------------------------------------------------------------
(* The schedule library's jobs and the main loop of run() *)

TimeOfDay(t) == t % DayLen
Midnight(t) == t - TimeOfDay(t)

\* every().day.at(at): the first run is today when `at` is still ahead, else tomorrow
FirstRun(at) == IF at > TimeOfDay(now) THEN Midnight(now) + at ELSE Midnight(now) + DayLen + at

\* a job that has just run is due again the next day
Rescheduled(js, id) ==
    [i \in 1..Len(js) |->
        IF js[i].id = id THEN [js[i] EXCEPT !.next_run = Midnight(now) + DayLen + js[i].at]
        ELSE js[i]]

CommitJob(id, at, repo) ==
    [id |-> id, kind |-> "commit", at |-> at, next_run |-> FirstRun(at), repo |-> repo]

\* line 294: the daily planning job
PlanJob(id) ==
    [id |-> id, kind |-> "plan", at |-> config.work_hours.start,
     next_run |-> FirstRun(config.work_hours.start), repo |-> ""]

Micros == 0..(TicksPerSecond - 1)
\* datetime.now().time() read micro ticks into the current second, in ticks of the day
Reading(micro) == TimeOfDay(now) * TicksPerSecond + micro
\* strptime(..., "%H:%M").time(): a configured time of day, in ticks of the day
ConfigTime(hm) == hm * TicksPerSecond
\* strftime("%H:%M:%S"): the whole second of a time of day given in ticks
WholeSecond(t) == t \div TicksPerSecond

\* is_work_hour, the clock reading t
IsWorkHour(t) ==
    ConfigTime(config.work_hours.start) <= t /\ t <= ConfigTime(config.work_hours.end)

\* ScheduleCommits with a fault: the jobs registered before the call are kept
ScheduleCommitsKeeping(js, t) ==
    IF config.repositories = <<>> THEN {[jobs |-> js, raised |-> FALSE]}
    ELSE IF t > ConfigTime(config.work_hours.end) THEN {[jobs |-> js, raised |-> FALSE]}
    ELSE IF config.commit_frequency.min_per_day > config.commit_frequency.max_per_day
    THEN {[jobs |-> js, raised |-> TRUE]}
    ELSE LET start_from == Max(t, ConfigTime(config.work_hours.start))
             available_seconds == ConfigTime(config.work_hours.end) - start_from
         IN  IF available_seconds <= 0 THEN {[jobs |-> js, raised |-> FALSE]}
             ELSE UNION {
                    { [jobs |-> js \o [i \in 1..num_commits |->
                                   CommitJob(nextid + i,
                                             WholeSecond(start_from
                                                         + offset[i] * TicksPerSecond),
                                             repo[i])],
                       raised |-> FALSE]
                      : offset \in [1..num_commits ->
                                      0..(available_seconds \div TicksPerSecond)],
                        repo \in [1..num_commits -> Range(config.repositories)] }
                    : num_commits \in config.commit_frequency.min_per_day
                                      ..config.commit_frequency.max_per_day }

Cleared == [jobs |-> <<>>, raised |-> FALSE]

\* schedule_commits called with the jobs js registered and the clock reading t:
\* the job lists it may leave, and whether it raised (randint, min > max)
ScheduleCommits(js, t) ==
    IF config.repositories = <<>> THEN {[jobs |-> js, raised |-> FALSE]}
    ELSE IF t > ConfigTime(config.work_hours.end) THEN {Cleared}
    ELSE IF config.commit_frequency.min_per_day > config.commit_frequency.max_per_day
    THEN {[jobs |-> <<>>, raised |-> TRUE]}
    ELSE LET start_from == Max(t, ConfigTime(config.work_hours.start))
             available_seconds == ConfigTime(config.work_hours.end) - start_from
         IN  IF available_seconds <= 0 THEN {Cleared}
             ELSE UNION {
                    { [jobs |-> [i \in 1..num_commits |->
                                   CommitJob(nextid + i,
                                             WholeSecond(start_from
                                                         + offset[i] * TicksPerSecond),
                                             repo[i])],
                       raised |-> FALSE]
                      : offset \in [1..num_commits ->
                                      0..(available_seconds \div TicksPerSecond)],
                        repo \in [1..num_commits -> Range(config.repositories)] }
                    : num_commits \in config.commit_frequency.min_per_day
                                      ..config.commit_frequency.max_per_day }

\* the reading schedule_commits took, kept when it returned before reading the clock
Planned(t) == IF config.repositories = <<>> THEN planned ELSE <<t>>

\* the jobs of js that are due, in the order run_pending runs them: by next_run,
\* jobs of equal next_run in the order of registration
RECURSIVE Sorted(_)
Sorted(js) ==
    IF js = <<>> THEN <<>>
    ELSE LET m == CHOOSE i \in 1..Len(js) :
                    \A j \in 1..Len(js) :
                        \/ js[i].next_run < js[j].next_run
                        \/ js[i].next_run = js[j].next_run /\ i <= j
         IN  <<js[m]>> \o Sorted(SubSeq(js, 1, m - 1) \o SubSeq(js, m + 1, Len(js)))

Due(js) == SelectSeq(js, LAMBDA j : now >= j.next_run)

\* CanStartJob with a fault: a due job is started without waiting for the running one
CanStartJobThreaded == TRUE

\* run_pending runs the due jobs one after the other, each call returning before
\* the next job is started
CanStartJob == cur = <<>>

\* OnException with a fault: the loop is left as on a user interrupt
OnExceptionBreak == "stopped"

\* lines 308-310: an exception out of run_pending is logged and the loop sleeps
OnException == "error_sleep"
\* lines 305-307: a user interrupt breaks the loop
OnKeyboardInterrupt == "stopped"

\* lines 289-298: register the planning job; plan today when started in work hours
\* (an exception of schedule_commits here is outside the loop's try and ends run)
RunStart ==
    /\ loop = "init"
    /\ \E m1 \in Micros : \E m2 \in m1..(TicksPerSecond - 1) :
          LET registered == <<PlanJob(nextid)>> IN
          IF IsWorkHour(Reading(m1))
          THEN \E o \in ScheduleCommits(registered, Reading(m2)) :
                  /\ jobs' = o.jobs
                  /\ planned' = Planned(Reading(m2))
                  /\ loop' = IF o.raised THEN "crashed" ELSE "pending"
          ELSE /\ jobs' = registered
               /\ loop' = "pending"
               /\ UNCHANGED planned
    /\ nextid' = nextid + 1 + config.commit_frequency.max_per_day
    /\ UNCHANGED <<repoVars, callVars, active, now, pending, cur, config, exc, splitVars, cfgVars>>

\* line 303: run_pending collects the due jobs
RunPending ==
    /\ loop = "pending"
    /\ pending' = Sorted(Due(jobs))
    /\ loop' = "running"
    /\ UNCHANGED <<repoVars, callVars, active, now, jobs, cur, nextid, config, planned, exc, splitVars, cfgVars>>

\* run_pending runs the planning job: schedule_commits, then the job is rescheduled;
\* when schedule_commits raises, the pass is abandoned and the loop's handler runs
RunPlanJob ==
    /\ loop = "running"
    /\ pending # <<>>
    /\ CanStartJob
    /\ Head(pending).kind = "plan"
    /\ \E micro \in Micros : \E o \in ScheduleCommits(jobs, Reading(micro)) :
          /\ planned' = Planned(Reading(micro))
          /\ IF o.raised
             THEN /\ jobs' = o.jobs
                  /\ pending' = <<>>
                  /\ exc' = "Exception"
                  /\ loop' = OnException
             ELSE /\ jobs' = Rescheduled(o.jobs, Head(pending).id)
                  /\ pending' = Tail(pending)
                  /\ UNCHANGED <<exc, loop>>
    /\ nextid' = nextid + 1 + config.commit_frequency.max_per_day
    /\ UNCHANGED <<repoVars, callVars, active, now, cur, config, splitVars, cfgVars>>

\* run_pending runs a commit job: commit_changes(repo_path) is called
StartCommitJob ==
    /\ loop = "running"
    /\ pending # <<>>
    /\ CanStartJob
    /\ Head(pending).kind = "commit"
    /\ cur' = <<Head(pending)>>
    /\ pending' = Tail(pending)
    /\ active' = active \cup {Head(pending).id}
    /\ pc' = "select"
    /\ files' = <<>>
    /\ modified_files' = <<>>
    /\ k' = 1
    /\ commit_message' = ""
    /\ ops' = <<>>
    /\ pre' = Snapshot
    /\ UNCHANGED <<repoVars, ret, now, jobs, loop, nextid, config, planned, exc, splitVars, cfgVars>>

\* commit_changes has returned: the job is rescheduled
FinishCommitJob ==
    /\ pc = "done"
    /\ cur # <<>>
    /\ jobs' = Rescheduled(jobs, cur[1].id)
    /\ active' = active \ {cur[1].id}
    /\ cur' = <<>>
    /\ pc' = "idle"
    /\ files' = <<>>
    /\ modified_files' = <<>>
    /\ k' = 1
    /\ commit_message' = ""
    /\ ops' = <<>>
    /\ pre' = Snapshot
    /\ UNCHANGED <<repoVars, ret, now, pending, loop, nextid, config, planned, exc, splitVars, cfgVars>>

\* line 304: time.sleep(1) after run_pending has run every due job
SleepUntil(limit) ==
    /\ loop = "running"
    /\ pending = <<>>
    /\ cur = <<>>
    /\ now < limit
    /\ now' = now + 1
    /\ loop' = "pending"
    /\ UNCHANGED <<repoVars, callVars, active, jobs, pending, cur, nextid, config, planned, exc, splitVars, cfgVars>>

Sleep == SleepUntil(MaxTime)
SleepSched == SleepUntil(MaxSchedTime)

\* seconds the loop sleeps after an exception (60 for the 1 of line 304)
ErrorSleep == 2

\* line 310: time.sleep(60), then the loop goes on
SleepAfterError ==
    /\ loop = "error_sleep"
    /\ now + ErrorSleep <= MaxSchedTime
    /\ now' = now + ErrorSleep
    /\ loop' = "pending"
    /\ UNCHANGED <<repoVars, callVars, active, jobs, pending, cur, nextid, config, planned, exc, splitVars, cfgVars>>

\* Ctrl-C while the loop runs pending jobs or sleeps: the loop is left, a
\* commit_changes call in progress is abandoned where it is
KeyboardInterrupt ==
    /\ loop \in {"pending", "running", "error_sleep"}
    /\ exc' = "KeyboardInterrupt"
    /\ loop' = OnKeyboardInterrupt
    /\ UNCHANGED <<repoVars, callVars, active, now, jobs, pending, cur, nextid, config, planned, splitVars, cfgVars>>

----------------------------------------------------------------------------

\* a configuration file: the default of load_config with the numbers scaled down
\* to the model's day; max_per_day commits are planned per day at most
Config(max_per_day) ==
    [repositories |-> <<"repo">>,
     work_hours |-> [start |-> 1, end |-> 2],
     commit_frequency |-> [min_per_day |-> 1, max_per_day |-> max_per_day],
     line_changes |-> [min_lines |-> 1, max_lines |-> 1],
     file_extensions |-> <<".py">>]

\* the repositories the system is started on, as path -> <<head, index, work>>:
\* every mix of states when one commit a day is planned, ...
OneRunRepositories ==
    {st \in [Paths -> {Clean, EmptyClean, StagedModified, WorktreeModified, BothModified,
                       AddedNew, Untracked, DeletedInWorktree}] :
        /\ st["a.py"] \in {Clean, StagedModified, WorktreeModified, BothModified, Untracked,
                           DeletedInWorktree}
        /\ st["b.py"] \in {Clean, EmptyClean, AddedNew}
        /\ st["n.txt"] \in {Clean, StagedModified, WorktreeModified}}

\* ... and a repository with one candidate file when two are
TwoRunRepositories ==
    {[p \in Paths |-> IF p = "a.py" THEN Clean ELSE IF p = "b.py" THEN Untracked ELSE Clean]}

InitRepository(st) ==
    /\ head = [p \in Paths |-> st[p][1]]
    /\ index = [p \in Paths |-> st[p][2]]
    /\ work = [p \in Paths |-> st[p][3]]
    /\ bak = [p \in Paths |-> Absent]
    /\ log = <<>>

\* no call of commit_changes yet, run() not started
InitSystem ==
    /\ pc = "idle"
    /\ files = <<>>
    /\ modified_files = <<>>
    /\ k = 1
    /\ commit_message = ""
    /\ ret = FALSE
    /\ ops = <<>>
    /\ pre = Snapshot
    /\ active = {}
    /\ jobs = <<>>
    /\ pending = <<>>
    /\ cur = <<>>
    /\ loop = "init"
    /\ nextid = 1
    /\ planned = <<>>
    /\ exc = "none"
    /\ saved = <<config>>
    /\ result = [op |-> "none", arg |-> "", value |-> "none"]

Init ==
    /\ \E max_per_day \in 1..2 :
          /\ config = Config(max_per_day)
          /\ \E st \in IF max_per_day = 1 THEN OneRunRepositories ELSE TwoRunRepositories :
                InitRepository(st)
    /\ InitSystem
    /\ now \in 0..(DayLen - 1)
    /\ diff = <<>>
    /\ patch = <<>>
    /\ split_pc = "input"

Next ==
    \/ RunStart
    \/ RunPending
    \/ RunPlanJob
    \/ StartCommitJob
    \/ SelectFiles
    \/ ModifyFile
    \/ GitAdd
    \/ GitCommit
    \/ RemoveBackup
    \/ FinishCommitJob
    \/ Sleep

Spec == Init /\ [][Next]_vars

----------------------------------------------------------------------------
(* The main loop over several days, on a repository without a file to modify *)

\* configurations: with and without a repository; one commit a day, one or two,
\* and min_per_day above max_per_day
SchedConfigs ==
    {[Config(1) EXCEPT !.repositories = repositories,
                       !.commit_frequency = [min_per_day |-> frequency[1],
                                             max_per_day |-> frequency[2]]]
       : repositories \in {<<>>, <<"repo">>},
         frequency \in {<<1, 1>>, <<1, 2>>, <<2, 1>>}}

\* no path is tracked: get_random_files returns []
NoCandidates == [p \in Paths |-> Untracked]

InitSched ==
    /\ config \in SchedConfigs
    /\ InitRepository(NoCandidates)
    /\ InitSystem
    /\ now \in 0..(DayLen - 1)
    /\ diff = <<>>
    /\ patch = <<>>
    /\ split_pc = "input"

NextSched ==
    \/ RunStart
    \/ RunPending
    \/ RunPlanJob
    \/ StartCommitJob
    \/ SelectFiles
    \/ FinishCommitJob
    \/ SleepSched
    \/ SleepAfterError
    \/ KeyboardInterrupt

SpecSched == InitSched /\ [][NextSched]_vars

\* the steps the running program takes by itself: all but the user's interrupt
Progress ==
    \/ RunStart
    \/ RunPending
    \/ RunPlanJob
    \/ StartCommitJob
    \/ SelectFiles
    \/ FinishCommitJob
    \/ SleepSched
    \/ SleepAfterError

\* the process keeps executing: a step it can take is taken
SpecLoop == InitSched /\ [][NextSched]_vars /\ WF_vars(Progress)

----------------------------------------------------------------------------
(* add_repository and remove_repository *)

\* the paths the calls are given, and the entries a configuration file may hold
RawPaths == {"/r1", "r1", "/r1/", "/r2", "/x"}

\* os.path.abspath, the working directory being "/": a relative path is joined to
\* it and a trailing separator is dropped
AbsPath ==
    [p \in RawPaths |-> IF p \in {"r1", "/r1/"} THEN "/r1" ELSE p]

\* the directories that hold a .git entry
GitDirs == {"/r1", "/r2"}

\* IsNew with a fault: the path is taken as new whatever the list holds
IsNewAlways(repo_path) == TRUE

\* line 71: repo_path not in self.config["repositories"]
IsNew(repo_path) == repo_path \notin Range(config.repositories)

\* list.remove(x): the list without the first entry equal to x
RemoveFirst(list, x) ==
    LET i == CHOOSE j \in 1..Len(list) :
                  list[j] = x /\ \A h \in 1..(j - 1) : list[h] # x
    IN  SubSeq(list, 1, i - 1) \o SubSeq(list, i + 1, Len(list))

\* save_config writing c, then the call returning True; or open failing with the
\* file as it was, or json.dump failing with the file cut short: the call raises
SaveAndReturn(op, arg, c) ==
    /\ config' = c
    /\ \/ /\ saved' = <<c>>
          /\ result' = [op |-> op, arg |-> arg, value |-> "True"]
       \/ /\ saved' \in {saved, <<>>}
          /\ result' = [op |-> op, arg |-> arg, value |-> "raised"]

ReturnFalse(op, arg) ==
    /\ result' = [op |-> op, arg |-> arg, value |-> "False"]
    /\ UNCHANGED <<config, saved>>

\* lines 64-76
AddRepository ==
    \E arg \in RawPaths :
       /\ LET repo_path == AbsPath[arg] IN
          IF repo_path \notin GitDirs THEN ReturnFalse("add", arg)
          ELSE IF IsNew(repo_path)
          THEN SaveAndReturn("add", arg,
                   [config EXCEPT !.repositories = Append(config.repositories, repo_path)])
          ELSE ReturnFalse("add", arg)
       /\ UNCHANGED <<repoVars, callVars, active, now, jobs, pending, cur, loop, nextid,
                      planned, exc, splitVars>>

\* lines 78-86
RemoveRepository ==
    \E arg \in RawPaths :
       /\ LET repo_path == AbsPath[arg] IN
          IF repo_path \in Range(config.repositories)
          THEN SaveAndReturn("remove", arg,
                   [config EXCEPT !.repositories = RemoveFirst(config.repositories, repo_path)])
          ELSE ReturnFalse("remove", arg)
       /\ UNCHANGED <<repoVars, callVars, active, now, jobs, pending, cur, loop, nextid,
                      planned, exc, splitVars>>

\* the lists of entries without a duplicate
RECURSIVE ListsWithoutDuplicates(_)
ListsWithoutDuplicates(S) ==
    {<<>>} \cup UNION {{<<x>> \o l : l \in ListsWithoutDuplicates(S \ {x})} : x \in S}

\* the configuration files the system is constructed on: a repository list
\* without duplicates, its entries written by add_repository or by hand
InitConfig ==
    /\ \E repositories \in ListsWithoutDuplicates({"/r1", "/r2", "r1"}) :
          config = [Config(1) EXCEPT !.repositories = repositories]
    /\ InitRepository([p \in Paths |-> Clean])
    /\ InitSystem
    /\ now = 0
    /\ diff = <<>>
    /\ patch = <<>>
    /\ split_pc = "input"

NextConfig == AddRepository \/ RemoveRepository

SpecConfig == InitConfig /\ [][NextConfig]_vars

----------------------------------------------------------------------------
(* DiffSplitter: split(fullDiff) -> firstHunkPatch. A diff text is a sequence of
   characters; "@" at the start of a line marks a hunk header. *)

\* longest diff text explored
MaxDiffLen == 5

Chars == {"@", "+", "\n"}

RECURSIVE TextsOfLen(_)
TextsOfLen(n) ==
    IF n = 0 THEN {<<>>}
    ELSE {Append(t, c) : t \in TextsOfLen(n - 1), c \in Chars}

Texts == UNION {TextsOfLen(n) : n \in 0..MaxDiffLen}

\* position of the first line terminator of t, 0 when there is none
FirstNewline(t) ==
    IF \E i \in 1..Len(t) : t[i] = "\n"
    THEN CHOOSE i \in 1..Len(t) : t[i] = "\n" /\ \A j \in 1..(i - 1) : t[j] # "\n"
    ELSE 0

\* the lines of t, without their terminators
RECURSIVE SplitLines(_)
SplitLines(t) ==
    IF t = <<>> THEN <<>>
    ELSE LET i == FirstNewline(t)
         IN  IF i = 0 THEN <<t>>
             ELSE <<SubSeq(t, 1, i - 1)>> \o SplitLines(SubSeq(t, i + 1, Len(t)))

IsHunkHeader(line) == line # <<>> /\ line[1] = "@"

\* HunkBoundarySet: the indices (from 0) of the hunk-header lines of t
HunkBoundarySet(t) ==
    {i \in 0..(Len(SplitLines(t)) - 1) : IsHunkHeader(SplitLines(t)[i + 1])}

\* the i-th smallest (from 1) element of a set of numbers
RECURSIVE Nth(_, _)
Nth(S, i) ==
    LET m == CHOOSE x \in S : \A y \in S : x <= y
    IN  IF i = 1 THEN m ELSE Nth(S \ {m}, i - 1)

\* number of characters of t before its line i (from 0)
RECURSIVE LineStart(_, _)
LineStart(t, i) ==
    IF i = 0 THEN 0
    ELSE LineStart(t, i - 1) + Len(SplitLines(t)[i]) + 1

\* Terminated with a fault: a line terminator appended whether or not one is there
TerminatedAlways(t) == t \o <<"\n">>

\* a single line terminator appended if absent
Terminated(t) == IF t # <<>> /\ t[Len(t)] = "\n" THEN t ELSE t \o <<"\n">>

\* the document up to, but excluding, the second hunk-header line
UpToSecondHunk(t) == SubSeq(t, 1, LineStart(t, Nth(HunkBoundarySet(t), 2)))

\* FirstHunkPatch with a fault: a diff with one hunk header is returned as it is
FirstHunkPatchUnterminated(t) ==
    IF Cardinality(HunkBoundarySet(t)) >= 2
    THEN Terminated(UpToSecondHunk(t))
    ELSE t

\* the first-hunk patch of a diff with at least one hunk header
FirstHunkPatch(t) ==
    IF Cardinality(HunkBoundarySet(t)) >= 2
    THEN Terminated(UpToSecondHunk(t))
    ELSE Terminated(t)

\* split: MalformedDiff without a hunk header, else the first-hunk patch
Split ==
    /\ split_pc = "input"
    /\ IF HunkBoundarySet(diff) = {}
       THEN split_pc' = "failed" /\ UNCHANGED patch
       ELSE split_pc' = "done" /\ patch' = FirstHunkPatch(diff)
    /\ UNCHANGED <<repoVars, callVars, active, schedVars, cfgVars, diff>>

InitSplit ==
    /\ config = Config(1)
    /\ InitRepository([p \in Paths |-> Clean])
    /\ InitSystem
    /\ now = 0
    /\ diff \in Texts
    /\ patch = <<>>
    /\ split_pc = "input"

NextSplit == Split

SpecSplit == InitSplit /\ [][NextSplit]_vars

----------------------------------------------------------------------------
(* Claims about commit_changes *)

\* the call has returned and its result is in ret
Returned == pc = "done"
\* the call created a commit
Committed == Len(log) > pre.commits
\* the commit commands the call has issued
CommitOps == {i \in 1..Len(ops) : ops[i].cmd = "commit"}
AddOps(f) == {i \in 1..Len(ops) : ops[i].cmd = "add" /\ ops[i].file = f}
FailedOps == {i \in 1..Len(ops) : ops[i].rc # "ok"}
\* p had an unstaged (working-tree-only) change when the call started
HadUnstagedChange(p) == pre.work[p] # pre.index[p]
\* p had a staged change when the call started
HadStagedChange(p) == pre.index[p] # pre.head[p]
\* p was "modified in index" (M in the index column of git status) when the call started
WasIndexModified(p) ==
    pre.head[p] # Absent /\ pre.index[p] # Absent /\ pre.index[p] # pre.head[p]
\* p was tracked under a configured extension when the call started
WasCandidate(p) ==
    pre.index[p] # Absent /\ \E i \in 1..Len(config.file_extensions) :
                                  Extension[p] = config.file_extensions[i]

\* C1: when a call has created a commit, every path it did not select that had a
\* staged change before the call is not part of the commit (HEAD holds for it what
\* it held) and is still staged unchanged.
C1_CommitHoldsOnlySelected ==
    (Returned /\ Committed) =>
        \A p \in Paths \ Range(files) :
            HadStagedChange(p) => head[p] = pre.head[p] /\ index[p] = pre.index[p]

\* C2, for a call that returned True: every path that had an unstaged change
\* before the call has the same working-tree content and the same index entry as
\* before: the change was not staged, committed, overwritten or lost.
C2_UnstagedChangesKept ==
    (Returned /\ ret = TRUE) =>
        \A p \in Paths :
            HadUnstagedChange(p) => work[p] = pre.work[p] /\ index[p] = pre.index[p]

\* C3: when a call that issued its commit command has returned, no content
\* remains set aside (no backup file is left), and if the commit command failed,
\* the content set aside was restored: every modified file holds what it held
\* before the call.
C3_SetAsideRestored ==
    (Returned /\ CommitOps # {}) =>
        /\ \A p \in Paths : bak[p] = Absent
        /\ (CommitOps \cap FailedOps # {}) =>
              \A i \in 1..Len(modified_files) :
                  work[modified_files[i]] = pre.work[modified_files[i]]

C5_ExitStatusReported ==
    Returned =>
        /\ ret = TRUE =>
              /\ \E i \in CommitOps : ops[i].rc = "ok"
              /\ Len(log) = pre.commits + 1
        /\ (CommitOps \cap FailedOps # {}) => ret = FALSE

\* C6: when a call that rewrote a file has returned False, every file it selected
\* holds its content of before the call and has the index entry of before the
\* call.
C6_FailureUndone ==
    (Returned /\ ret = FALSE /\ modified_files # <<>>) =>
        \A i \in 1..Len(files) :
            /\ work[files[i]] = pre.work[files[i]]
            /\ index[files[i]] = pre.index[files[i]]

\* C7: at most one commit_changes call is in progress at any time, and it is the
\* call of the job run_pending is running.
C7_RunsNeverOverlap ==
    /\ Cardinality(active) <= 1
    /\ pc # "idle" => cur # <<>> /\ active = {cur[1].id}
    /\ pc = "idle" => active = {}

\* two commit jobs are due in the same second: one waits while the call of the
\* other is past its start
C7_Witness ==
    /\ pc \in {"modify", "add", "commit", "cleanup"}
    /\ pending # <<>>
    /\ Head(pending).kind = "commit"
    /\ Head(pending).next_run = cur[1].next_run
    /\ Head(pending).repo = cur[1].repo

\* C8: a call issues the commit command at most once, with the message it
\* generated, and creates at most one commit, whose message is that one; past the
\* commit step it has issued the command exactly once; a call that returned
\* without a file to modify or without a modified file has issued no git add and
\* no git commit.
C8_AtMostOneCommit ==
    /\ Cardinality(CommitOps) <= 1
    /\ Len(log) <= pre.commits + 1
    /\ \A i \in CommitOps : ops[i].msg = commit_message
    /\ Committed => log[Len(log)] = commit_message
    /\ pc = "cleanup" => Cardinality(CommitOps) = 1
    /\ (Returned /\ ret = TRUE) => Cardinality(CommitOps) = 1
    /\ (Returned /\ (files = <<>> \/ modified_files = <<>>)) => ops = <<>>

\* a call that modified two files, committed and returned True
C8_Witness ==
    /\ Returned /\ ret = TRUE /\ Committed
    /\ Len(modified_files) = 2
    /\ Cardinality(CommitOps) = 1

\* C9: a call issues git add at most once per file and git commit at most once,
\* and once a git command of it has failed it issues no further command and
\* returns False.
C9_NoRetryFailureTerminal ==
    /\ \A f \in Paths : Cardinality(AddOps(f)) <= 1
    /\ Cardinality(CommitOps) <= 1
    /\ \A i \in FailedOps : i = Len(ops)
    /\ (Returned /\ FailedOps # {}) => ret = FALSE

\* a step of ModifyFile: one modify_file_content(files[k]) call, from start to return
ModifyStep == pc = "modify" /\ (k' # k \/ pc' # "modify")
\* the call of that step returned True
ModifyStepTrue == ModifyStep /\ modified_files' # modified_files
\* the call of that step returned False
ModifyStepFalse == ModifyStep /\ modified_files' = modified_files

\* C15: when a modify_file_content call returns False, the file holds after the
\* call the content it held before the call, whichever step failed and whether or
\* not a backup file was there when the call started.
C15_FailedModifyKeepsFile ==
    [][ModifyStepFalse => work'[files[k]] = work[files[k]]]_vars

\* C17, for a call that reached its git commands: when the call has returned,
\* whatever it returned, no backup file is on disk that was not there when the call
\* started.
C17_NoBackupLeft ==
    (Returned /\ ops # <<>>) =>
        \A p \in Paths : pre.bak[p] = Absent => bak[p] = Absent

\* C18: when a modify_file_content call returns True, the file holds after the
\* call a content other than the one it held before the call.
C18_ModifyChangesContent ==
    [][ModifyStepTrue => work'[files[k]] # work[files[k]]]_vars

----------------------------------------------------------------------------
(* Claims about split *)

\* lines joined with a line terminator between them
RECURSIVE JoinLines(_)
JoinLines(ls) ==
    IF ls = <<>> THEN <<>>
    ELSE IF Len(ls) = 1 THEN ls[1]
    ELSE ls[1] \o <<"\n">> \o JoinLines(Tail(ls))

\* C10: for a diff with at least two hunk-header lines, the first at line i1 and
\* the second at line i2, split returns lines [0, i2) of the diff followed by one
\* line terminator, and the patch holds exactly one hunk-header line, at i1.
C10_FirstHunkBoundary ==
    (split_pc = "done" /\ Cardinality(HunkBoundarySet(diff)) >= 2) =>
        LET i1 == Nth(HunkBoundarySet(diff), 1)
            i2 == Nth(HunkBoundarySet(diff), 2)
        IN  /\ patch = JoinLines(SubSeq(SplitLines(diff), 1, i2)) \o <<"\n">>
            /\ HunkBoundarySet(patch) = {i1}

\* split has run on a diff with file-header lines, two hunks and a body
C10_Witness ==
    /\ split_pc = "done"
    /\ Cardinality(HunkBoundarySet(diff)) >= 2
    /\ Nth(HunkBoundarySet(diff), 1) > 0
    /\ Nth(HunkBoundarySet(diff), 2) > Nth(HunkBoundarySet(diff), 1) + 1

\* C11: for a diff with exactly one hunk-header line, split returns the whole diff,
\* with one line terminator appended when the diff does not end with one, and split
\* applied to that patch succeeds and returns the same patch.
C11_SingleHunkIdempotent ==
    (split_pc = "done" /\ Cardinality(HunkBoundarySet(diff)) = 1) =>
        /\ patch = IF diff[Len(diff)] = "\n" THEN diff ELSE Append(diff, "\n")
        /\ HunkBoundarySet(patch) # {}
        /\ FirstHunkPatch(patch) = patch

\* split has run on a diff with a file-header line, one hunk header and a body line
\* that is not terminated
C11_Witness ==
    /\ split_pc = "done"
    /\ Cardinality(HunkBoundarySet(diff)) = 1
    /\ Nth(HunkBoundarySet(diff), 1) = 1
    /\ Len(SplitLines(diff)) = 3
    /\ diff[Len(diff)] # "\n"

----------------------------------------------------------------------------
(* Claims about schedule_commits and the main loop *)

PlanJobs == {i \in 1..Len(jobs) : jobs[i].kind = "plan"}
CommitJobs == {i \in 1..Len(jobs) : jobs[i].kind = "commit"}

\* C12: once run() has registered the planning job, the planning job is registered
\* in every later state, whatever schedule_commits calls were made.
C12_PlanningJobKept ==
    loop \in {"pending", "running", "error_sleep", "stopped"} => PlanJobs # {}

\* C13: every registered commit job has a time of day t with
\* max(now, work_hours.start) <= t <= work_hours.end, now being the clock reading of
\* the schedule_commits call that registered it; after a call later than
\* work_hours.end, and without a configured repository, no commit job is registered.
C13_CommitTimesInWindow ==
    /\ \A i \in CommitJobs :
          /\ planned # <<>>
          /\ ConfigTime(jobs[i].at) >= Max(planned[1], ConfigTime(config.work_hours.start))
          /\ jobs[i].at <= config.work_hours.end
    /\ (planned # <<>> /\ planned[1] > ConfigTime(config.work_hours.end)) => CommitJobs = {}
    /\ config.repositories = <<>> => CommitJobs = {}

\* the last schedule_commits call read the clock with time left before work_hours.end
PlannedWithTimeLeft ==
    /\ planned # <<>>
    /\ Max(planned[1], ConfigTime(config.work_hours.start)) < ConfigTime(config.work_hours.end)

\* C14: with a repository configured and min_per_day <= max_per_day, once
\* schedule_commits has been called with time left before work_hours.end, the number
\* of registered commit jobs is at least min_per_day and at most max_per_day, in every
\* state up to the next call, on the day of the call and on the days after.
C14_CommitJobCount ==
    (/\ config.repositories # <<>>
     /\ config.commit_frequency.min_per_day <= config.commit_frequency.max_per_day
     /\ PlannedWithTimeLeft) =>
        /\ Cardinality(CommitJobs) >= config.commit_frequency.min_per_day
        /\ Cardinality(CommitJobs) <= config.commit_frequency.max_per_day

\* two commit jobs were planned and have run; the next day they are registered still
C14_Witness ==
    /\ PlannedWithTimeLeft
    /\ Cardinality(CommitJobs) = 2
    /\ now >= DayLen
    /\ \A i \in CommitJobs : jobs[i].next_run >= 2 * DayLen

\* a registered job is due since second t
DueSince(t) == now >= t /\ \E i \in 1..Len(jobs) : jobs[i].next_run = t

\* C16: the loop is left only on a KeyboardInterrupt; after an exception out of
\* run_pending the loop sleeps and goes on; and, commit runs returning False or an
\* exception having been caught, every registered job that is due is run (and so
\* is due no more at that time) unless the user interrupts first.
C16_LoopKeepsRunning ==
    /\ [](loop = "stopped" => exc = "KeyboardInterrupt")
    /\ (loop = "error_sleep" /\ now + ErrorSleep <= MaxSchedTime) ~> (loop # "error_sleep")
    /\ \A t \in 0..MaxSchedTime : DueSince(t) ~> (~DueSince(t) \/ loop = "stopped")

\* an exception of the planning job was caught, the loop slept and runs pending jobs again
C16_Witness ==
    /\ exc = "Exception"
    /\ loop = "running"
    /\ now >= DayLen

----------------------------------------------------------------------------
(* Claims about the repository list *)

NoDuplicates(list) == \A i, j \in 1..Len(list) : list[i] = list[j] => i = j

\* C19: the repository list never holds a path twice; a call that returns,
\* returns True when it changed the list and False when it did not; and after a
\* call that returned True the configuration file holds the configuration in
\* memory, repository list included.
C19_RepositoryListConsistent ==
    /\ [](NoDuplicates(config.repositories))
    /\ [](result.value = "True" => saved = <<config>>)
    /\ [][result'.value \in {"True", "False"} =>
             (result'.value = "True" <=> config'.repositories # config.repositories)]_vars

\* a path given in another spelling than the one stored was removed, another
\* repository staying in the list
C19_Witness ==
    /\ result.op = "remove"
    /\ result.value = "True"
    /\ result.arg # AbsPath[result.arg]
    /\ config.repositories = <<"/r2">>
    /\ saved = <<config>>

====
